---- MODULE Spec2Model ----
(***************************************************************************)
(* Model of the paper-list reconciliation engine:                          *)
(*   src/src/core/database_model.py   (identity, field equality, duplicate)*)
(*   src/src/core/database_manager.py (DatabaseManager.add_papers)         *)
(*   src/src/update.py                (UpdateProcessor.process_updates)    *)
(*   src/src/core/update_file_utils.py (reading and writing CSV and JSON)  *)
(*   src/src/convert.py               (ReadmeGenerator)                    *)
(*   src/src/submit_logic.py          (manual conflict resolution)         *)
(*                                                                         *)
(* A Python string is modelled as a sequence of tokens; the token " " is   *)
(* white space, so that strip(), lower() and replace() are computed and    *)
(* not assumed.  A Paper is a record of the fields the engine reads.       *)
(***************************************************************************)
EXTENDS Integers, Sequences, FiniteSets, TLC

VARIABLES
    db,          \* rows of the core database file, in file order
    upd,         \* rows of the update file, in file order
    op,          \* the operation that ran last: "idle", "add", "update", ...
    pre,         \* rows of the core database file when that operation began
    policy,      \* conflict_resolution argument of the last call
    batch,       \* the papers handed to the last call (new_papers of add_papers)
    loaded,      \* whether load_database succeeded in the last call
    saved,       \* outcome of save_database in the last call
    added,       \* first component of the last add_papers return value
    conflicted,  \* second component of the last add_papers return value
    msgs,        \* third component: the messages returned
    file,        \* rows of the update file when process_updates began, or
                 \* the file that write_data wrote
    result       \* what the last operation returned (the result dictionary
                 \* of process_updates, the papers read, the rows rendered)

vars == <<db, upd, op, pre, policy, batch, loaded, saved, added, conflicted, msgs,
          file, result>>

-----------------------------------------------------------------------------
(* Bounds of the model *)

MaxDb == 3
MaxBatch == 2
MaxUpd == 2

-----------------------------------------------------------------------------
(* Strings *)

E == <<>>
WS == " "
ConflictMarker == "[conflict]"

LowerTok(t) ==
    CASE t = "FOO" -> "foo"
      [] t = "10.1/A" -> "10.1/a"
      [] OTHER -> t

Lower(s) == [i \in DOMAIN s |-> LowerTok(s[i])]

RECURSIVE LStrip(_)
LStrip(s) == IF s # E /\ Head(s) = WS THEN LStrip(Tail(s)) ELSE s

RECURSIVE RStrip(_)
RStrip(s) ==
    IF s # E /\ s[Len(s)] = WS THEN RStrip(SubSeq(s, 1, Len(s) - 1)) ELSE s

Strip(s) == RStrip(LStrip(s))

Replace(s, tok) == SelectSeq(s, LAMBDA t : t # tok)

-----------------------------------------------------------------------------
(* Record model: Paper *)

StrFields == {"doi", "title", "notes", "category"}
Fields == StrFields \cup {"submission_time", "conflict_marker"}

\* get_system_tags(): the fields under "系统字段" of the Paper dataclass
SystemFields == {"submission_time", "conflict_marker"}

DoiPrefixes == {"https://doi.org/", "https://dx.doi.org/", "doi:"}

\* clean_doi(doi, conflict_marker): drop the marker, a known DOI prefix, trim
clean_doi(s) ==
    LET t == Strip(Replace(s, ConflictMarker))
    IN  IF t # E /\ Head(t) \in DoiPrefixes THEN Strip(Tail(t)) ELSE t

\* the normalization that leaves the conflict marker in the DOI
_normalize_doi_for_compare_KeepMarker(doi) ==
    IF doi = E THEN E
    ELSE LET t == Strip(doi)
         IN  Lower(IF t # E /\ Head(t) \in DoiPrefixes THEN Strip(Tail(t)) ELSE t)

\* the normalization without the final lower()
_normalize_doi_for_compare_NoLower(doi) ==
    IF doi = E THEN E
    ELSE clean_doi(Replace(Strip(doi), ConflictMarker))

_normalize_doi_for_compare(doi) ==
    IF doi = E THEN E
    ELSE Lower(clean_doi(Replace(Strip(doi), ConflictMarker)))

\* identity that also matches two empty titles
is_same_identity_BlankMatches(a, b) ==
    LET doi_a == _normalize_doi_for_compare(a.doi)
        doi_b == _normalize_doi_for_compare(b.doi)
        title_a == Lower(Strip(a.title))
        title_b == Lower(Strip(b.title))
    IN  \/ doi_a # E /\ doi_b # E /\ doi_a = doi_b
        \/ title_a = title_b

\* identity by DOI alone
is_same_identity_DoiOnly(a, b) ==
    LET doi_a == _normalize_doi_for_compare(a.doi)
        doi_b == _normalize_doi_for_compare(b.doi)
    IN  doi_a # E /\ doi_b # E /\ doi_a = doi_b

is_same_identity(a, b) ==
    LET doi_a == _normalize_doi_for_compare(a.doi)
        doi_b == _normalize_doi_for_compare(b.doi)
        title_a == Lower(Strip(a.title))
        title_b == Lower(Strip(b.title))
    IN  \/ doi_a # E /\ doi_b # E /\ doi_a = doi_b
        \/ title_a # E /\ title_b # E /\ title_a = title_b

\* the dict as stored, the DOI left as typed
CompareDict_Raw(p) == p

\* the dict that _papers_fields_equal compares: to_dict() with the DOI normalized
CompareDict(p) == [p EXCEPT !.doi = _normalize_doi_for_compare(p.doi)]

is_non_empty(v, k) ==
    CASE k \in StrFields -> v # E
      [] k = "submission_time" -> v # 0
      [] OTHER -> TRUE

get_non_empty_keys(d, ignore_keys) ==
    {k \in Fields \ ignore_keys : is_non_empty(d[k], k)}

\* comparison of the values as they are, without strip()
ValuesAgree_NoStrip(va, vb, k) == va = vb

ValuesAgree(va, vb, k) ==
    IF k \in StrFields THEN Strip(va) = Strip(vb) ELSE va = vb

_papers_fields_equal(new, exist, complete_compare, ignore_fields) ==
    LET a_dict == CompareDict(new)
        b_dict == CompareDict(exist)
        a_keys_set == get_non_empty_keys(a_dict, ignore_fields)
        b_keys_set == get_non_empty_keys(b_dict, ignore_fields)
    IN  IF ~complete_compare
        THEN /\ a_keys_set \subseteq b_keys_set
             /\ \A k \in a_keys_set : ValuesAgree(a_dict[k], b_dict[k], k)
        ELSE \A k \in Fields \ ignore_fields :
                 ValuesAgree(a_dict[k], b_dict[k], k)

is_duplicate_paper(existing_papers, new_paper, complete_compare) ==
    \E i \in DOMAIN existing_papers :
        /\ is_same_identity(existing_papers[i], new_paper)
        /\ _papers_fields_equal(existing_papers[i], new_paper,
                                complete_compare, SystemFields)

-----------------------------------------------------------------------------
(* Store adapter: what load_database returns for the rows of the file *)

\* _dict_to_paper / _convert_type trim every string cell; Paper.__post_init__
\* cleans the DOI
_dict_to_paper(row) ==
    [row EXCEPT !.doi = IF Strip(@) = E THEN E ELSE clean_doi(Strip(@)),
                !.title = Strip(@),
                !.notes = Strip(@),
                !.category = Strip(@)]

\* str.split(sep)
RECURSIVE SplitOn(_, _)
SplitOn(s, sep) ==
    IF \A i \in DOMAIN s : s[i] # sep THEN <<s>>
    ELSE LET k == CHOOSE i \in DOMAIN s :
                      s[i] = sep /\ \A j \in 1..(i - 1) : s[j] # sep
         IN  <<SubSeq(s, 1, k - 1)>> \o SplitOn(SubSeq(s, k + 1, Len(s)), sep)

\* sep.join(parts)
RECURSIVE Join(_, _)
Join(parts, sep) ==
    IF parts = <<>> THEN E
    ELSE IF Len(parts) = 1 THEN parts[1]
    ELSE parts[1] \o <<sep>> \o Join(Tail(parts), sep)

\* [x.strip() for x in items if x.strip()]
StrippedItems(items) ==
    SelectSeq([i \in DOMAIN items |-> Strip(items[i])], LAMBDA x : x # E)

_array_string_to_json_list(value) == StrippedItems(SplitOn(Strip(value), "|"))

\* _normalize_array_string of a str
_normalize_array_string(value) == Join(_array_string_to_json_list(value), "|")

\* the fields whose tag type ends with "[]": category is an enum[]
ArrayFields == {"category"}

\* read_data on the core file: the array fields are normalized, then every
\* row becomes a Paper
load_database(rows) ==
    [i \in DOMAIN rows |->
        _dict_to_paper([rows[i] EXCEPT !.category = _normalize_array_string(@)])]

-----------------------------------------------------------------------------
(* Reconciliation engine: DatabaseManager.add_papers *)

Policies == {"mark", "skip", "replace"}

Min(S) == CHOOSE x \in S : \A y \in S : x <= y

\* step 3, separation: every unflagged record seeds a group
SeedGroups(old_papers) ==
    LET m == SelectSeq(old_papers, LAMBDA p : ~p.conflict_marker)
    IN  [i \in DOMAIN m |-> [main |-> m[i], conf |-> <<>>]]

old_conflict_papers(old_papers) ==
    SelectSeq(old_papers, LAMBDA p : p.conflict_marker)

\* a lookup that compares DOIs only
SameIdentityIndices_DoiOnly(groups, p) ==
    {i \in DOMAIN groups :
        /\ _normalize_doi_for_compare(p.doi) # E
        /\ _normalize_doi_for_compare(p.doi)
               = _normalize_doi_for_compare(groups[i].main.doi)}

SameIdentityIndices(groups, p) ==
    {i \in DOMAIN groups : is_same_identity(p, groups[i].main)}

\* step 3, regrouping: a flagged record joins the first group it matches;
\* an orphan is appended as a group of its own with its flag cleared
\* regrouping that appends an orphan without clearing its flag
RECURSIVE Regroup_KeepFlag(_, _)
Regroup_KeepFlag(groups, confs) ==
    IF confs = <<>> THEN groups
    ELSE LET c == Head(confs)
             S == SameIdentityIndices(groups, c)
         IN  Regroup_KeepFlag(IF S # {}
                              THEN [groups EXCEPT ![Min(S)].conf = Append(@, c)]
                              ELSE Append(groups, [main |-> c, conf |-> <<>>]),
                              Tail(confs))

RECURSIVE Regroup(_, _)
Regroup(groups, confs) ==
    IF confs = <<>> THEN groups
    ELSE LET c == Head(confs)
             S == SameIdentityIndices(groups, c)
         IN  Regroup(IF S # {}
                     THEN [groups EXCEPT ![Min(S)].conf = Append(@, c)]
                     ELSE Append(groups,
                                 [main |-> [c EXCEPT !.conflict_marker = FALSE],
                                  conf |-> <<>>]),
                     Tail(confs))

\* all_same_papers without the conflict lists of the matched groups
RECURSIVE AllSamePapers_MainsOnly(_, _, _)
AllSamePapers_MainsOnly(groups, S, i) ==
    IF i > Len(groups) THEN <<>>
    ELSE (IF i \in S THEN <<groups[i].main>> ELSE <<>>)
         \o AllSamePapers_MainsOnly(groups, S, i + 1)

\* all_same_papers: main paper and conflict list of every matched group
RECURSIVE AllSamePapers(_, _, _)
AllSamePapers(groups, S, i) ==
    IF i > Len(groups) THEN <<>>
    ELSE (IF i \in S THEN <<groups[i].main>> \o groups[i].conf ELSE <<>>)
         \o AllSamePapers(groups, S, i + 1)

RECURSIVE DeleteGroups(_, _, _)
DeleteGroups(groups, S, i) ==
    IF i > Len(groups) THEN <<>>
    ELSE (IF i \in S THEN <<>> ELSE <<groups[i]>>)
         \o DeleteGroups(groups, S, i + 1)

\* step 4 works on st = [groups, added, conflicted, passed]; st.passed
\* collects the incoming objects as the loop leaves them

\* "mark" that attaches the incoming record to the last matching group
MarkConflict_Last(st, S, new_paper) ==
    LET marked == [new_paper EXCEPT !.conflict_marker = TRUE]
        last == CHOOSE x \in S : \A y \in S : x >= y
    IN  [groups |-> [st.groups EXCEPT ![last].conf = Append(@, marked)],
         added |-> st.added,
         conflicted |-> Append(st.conflicted, marked),
         passed |-> Append(st.passed, marked)]

\* "mark": flag the incoming record, attach it to the first matching group
MarkConflict(st, S, new_paper) ==
    LET marked == [new_paper EXCEPT !.conflict_marker = TRUE]
    IN  [groups |-> [st.groups EXCEPT ![Min(S)].conf = Append(@, marked)],
         added |-> st.added,
         conflicted |-> Append(st.conflicted, marked),
         passed |-> Append(st.passed, marked)]

\* "replace": delete every matching group, append the incoming record
ReplaceGroups(st, S, new_paper) ==
    [groups |-> Append(DeleteGroups(st.groups, S, 1),
                       [main |-> new_paper, conf |-> <<>>]),
     added |-> Append(st.added, new_paper),
     conflicted |-> st.conflicted,
     passed |-> Append(st.passed, new_paper)]

\* no group matches: the incoming record becomes a group of its own
AddNewPaper(st, S, new_paper) ==
    [groups |-> Append(st.groups, [main |-> new_paper, conf |-> <<>>]),
     added |-> Append(st.added, new_paper),
     conflicted |-> st.conflicted,
     passed |-> Append(st.passed, new_paper)]

\* "continue" after a duplicate was recognised
SkipDuplicate(st, S, new_paper) == [st EXCEPT !.passed = Append(@, new_paper)]

\* a skip that stores the record as a conflict all the same
SkipConflict_Marks(st, S, new_paper) == MarkConflict(st, S, new_paper)

\* "skip": "continue" for a conflicting record
SkipConflict(st, S, new_paper) == [st EXCEPT !.passed = Append(@, new_paper)]

\* one iteration of "for new_paper in new_papers"; is_duplicate is the
\* boolean that is_duplicate_paper returns
ProcessNewPaper(st, new_paper, conflict_resolution) ==
    LET S == SameIdentityIndices(st.groups, new_paper)
    IN  IF S # {}
        THEN IF is_duplicate_paper(AllSamePapers(st.groups, S, 1),
                                   new_paper, FALSE)
             THEN SkipDuplicate(st, S, new_paper)
             ELSE CASE conflict_resolution = "skip" ->
                         SkipConflict(st, S, new_paper)
                    [] conflict_resolution = "replace" ->
                         ReplaceGroups(st, S, new_paper)
                    [] conflict_resolution = "mark" ->
                         MarkConflict(st, S, new_paper)
        ELSE AddNewPaper(st, S, new_paper)

RECURSIVE ProcessNewPapers(_, _, _)
ProcessNewPapers(st, new_papers, conflict_resolution) ==
    IF new_papers = <<>> THEN st
    ELSE ProcessNewPapers(
             ProcessNewPaper(st, Head(new_papers), conflict_resolution),
             Tail(new_papers), conflict_resolution)

\* step 5: category of a group, str(category).split('|')[0].strip()
RECURSIVE FirstSegment(_)
FirstSegment(s) ==
    IF s = <<>> \/ Head(s) = "|" THEN <<>>
    ELSE <<Head(s)>> \o FirstSegment(Tail(s))

GroupCategory(g) ==
    IF g.main.category = E THEN <<"Uncategorized">>
    ELSE Strip(FirstSegment(g.main.category))

\* config.get_active_categories(): unique_name in configured order
ActiveCategories ==
    <<"make_cot_short", "make_cot_strong", "efficient_decoding",
      "multimodal_reasoning", "agentic_reasoning", "evaluation_benchmarks",
      "background_papers", "competition">>

UnmappedSortKey == 9999

\* cat_order_map.get(cat_name, (9999, 9999)); order and index coincide
get_cat_sort_key(cat) ==
    IF Len(cat) = 1 /\ \E i \in DOMAIN ActiveCategories : ActiveCategories[i] = cat[1]
    THEN (CHOOSE i \in DOMAIN ActiveCategories : ActiveCategories[i] = cat[1]) - 1
    ELSE UnmappedSortKey

\* keys of category_groups, in insertion order
RECURSIVE CategoryKeys(_)
CategoryKeys(groups) ==
    IF groups = <<>> THEN <<>>
    ELSE LET c == GroupCategory(Head(groups))
         IN  <<c>> \o CategoryKeys(SelectSeq(Tail(groups),
                                             LAMBDA g : GroupCategory(g) # c))

\* sorted(category_groups.keys(), key=get_cat_sort_key): stable, ascending
RECURSIVE SortCatsFrom(_, _)
SortCatsFrom(keys, r) ==
    IF r >= Len(ActiveCategories)
    THEN SelectSeq(keys, LAMBDA c : get_cat_sort_key(c) = UnmappedSortKey)
    ELSE SelectSeq(keys, LAMBDA c : get_cat_sort_key(c) = r)
         \o SortCatsFrom(keys, r + 1)

\* the categories left in insertion order
sorted_cats_Unsorted(groups) == CategoryKeys(groups)

sorted_cats(groups) == SortCatsFrom(CategoryKeys(groups), 0)

Max(S) == CHOOSE x \in S : \A y \in S : x >= y

\* list.sort(key=submission_time or "", reverse=True): stable, descending
RECURSIVE PapersFromTime(_, _)
PapersFromTime(ps, t) ==
    IF t < 0 THEN <<>>
    ELSE SelectSeq(ps, LAMBDA p : p.submission_time = t)
         \o PapersFromTime(ps, t - 1)

SortPapersDesc(ps) ==
    IF ps = <<>> THEN <<>>
    ELSE PapersFromTime(ps, Max({ps[i].submission_time : i \in DOMAIN ps}))

RECURSIVE GroupsFromTime(_, _)
GroupsFromTime(gs, t) ==
    IF t < 0 THEN <<>>
    ELSE SelectSeq(gs, LAMBDA g : g.main.submission_time = t)
         \o GroupsFromTime(gs, t - 1)

SortGroupsDesc(gs) ==
    IF gs = <<>> THEN <<>>
    ELSE GroupsFromTime(gs, Max({gs[i].main.submission_time : i \in DOMAIN gs}))

\* conflicts of a group first (newest first), then its main paper
RECURSIVE FlattenGroups(_)
FlattenGroups(gs) ==
    IF gs = <<>> THEN <<>>
    ELSE SortPapersDesc(Head(gs).conf) \o <<Head(gs).main>>
         \o FlattenGroups(Tail(gs))

RECURSIVE FlattenCategories(_, _)
FlattenCategories(groups, cats) ==
    IF cats = <<>> THEN <<>>
    ELSE FlattenGroups(SortGroupsDesc(
             SelectSeq(groups, LAMBDA g : GroupCategory(g) = Head(cats))))
         \o FlattenCategories(groups, Tail(cats))

sorted_all_papers(groups) == FlattenCategories(groups, sorted_cats(groups))

\* add_papers from a successful load up to the call of save_database
add_papers(rows, new_papers, conflict_resolution) ==
    LET old_papers == load_database(rows)
        non_conflict_papers ==
            Regroup(SeedGroups(old_papers), old_conflict_papers(old_papers))
        st == ProcessNewPapers([groups |-> non_conflict_papers,
                                added |-> <<>>, conflicted |-> <<>>,
                                passed |-> <<>>],
                               new_papers, conflict_resolution)
    IN  [regrouped |-> non_conflict_papers,
         groups |-> st.groups,
         added |-> st.added,
         conflicted |-> st.conflicted,
         passed |-> st.passed,
         sorted |-> sorted_all_papers(st.groups)]

-----------------------------------------------------------------------------
(* Inputs *)

PoolDois == {E, <<"10.1/a">>}
PoolTitles == {E, <<"foo">>}
PoolNotes == {E, <<"n1">>}
PoolCategories == {<<"make_cot_short">>}
PoolTimes == {1}

\* incoming records; the ones that arrive already flagged carry no notes
Pool ==
    {p \in [doi : PoolDois, title : PoolTitles, notes : PoolNotes,
             category : PoolCategories, submission_time : PoolTimes,
             conflict_marker : BOOLEAN] : p.conflict_marker => p.notes = E}

SeqsUpTo(S, n) == UNION {[1..k -> S] : k \in 0..n}

\* records for the ordering of the file: a mapped category, a multi-valued
\* category whose first token is mapped, an unmapped one; two dates
OrderCategories ==
    {<<"make_cot_short">>,
     <<"make_cot_strong", " ", "|", "make_cot_short">>,
     <<"zzz">>}

OrderTimes == {1, 2}

OrderPool ==
    {p \in [doi : PoolDois, title : PoolTitles, notes : {E},
             category : OrderCategories, submission_time : OrderTimes,
             conflict_marker : {FALSE}] : (p.doi = E) # (p.title = E)}

OrderBatches == SeqsUpTo(OrderPool, MaxBatch)

Batches == SeqsUpTo(Pool, MaxBatch)

\* save_database: "ok"; "unwritten" when backup, asset normalization or open()
\* raises; "partial" when the writer raises after some rows
SaveOutcomes == {"ok", "unwritten", "partial"}

\* records a contributor puts into an update file
UpdPool == {p \in Pool : ~p.conflict_marker /\ p.title # E}

UpdateFiles == SeqsUpTo(UpdPool, MaxUpd)

-----------------------------------------------------------------------------
(* process_updates *)

\* Paper.get_key: f"{doi}_{title}"
get_key(p) == p.doi \o <<"_">> \o p.title

\* _deduplicate_papers: k[0] and k[1] are the first characters of the key
\* string; every token of a string holds at least one character
RECURSIVE DedupFrom(_, _)
DedupFrom(papers, seen_keys) ==
    IF papers = <<>> THEN <<>>
    ELSE LET k == get_key(Head(papers))
         IN  IF Head(k) = "" /\ k[2] = "" THEN DedupFrom(Tail(papers), seen_keys)
             ELSE IF k \in seen_keys THEN DedupFrom(Tail(papers), seen_keys)
             ELSE <<Head(papers)>> \o DedupFrom(Tail(papers), seen_keys \cup {k})

_deduplicate_papers(papers) == DedupFrom(papers, {})

\* step 3 of process_updates: the records that pass validation, in order
RECURSIVE ValidFrom(_, _, _)
ValidFrom(unique_papers, invalid, i) ==
    IF i > Len(unique_papers) THEN <<>>
    ELSE (IF i \in invalid THEN <<>> ELSE <<unique_papers[i]>>)
         \o ValidFrom(unique_papers, invalid, i + 1)

\* a batch with an invalid record is given up as a whole
ValidPapers_AllOrNothing(unique_papers, invalid) ==
    IF invalid = {} THEN unique_papers ELSE <<>>

ValidPapers(unique_papers, invalid) == ValidFrom(unique_papers, invalid, 1)

\* step 6 of process_updates: the update file without the records whose key
\* is the key of a processed record; rewritten only if it shrinks
RemoveProcessed(rows, processed) ==
    LET current_file_papers == load_database(rows)
        processed_keys == {get_key(processed[i]) : i \in DOMAIN processed}
        remaining == SelectSeq(current_file_papers,
                               LAMBDA p : get_key(p) \notin processed_keys)
    IN  IF processed # <<>> /\ Len(remaining) < Len(current_file_papers)
        THEN remaining ELSE rows

\* result of process_updates before any file is processed
NoResult == [success |-> FALSE, new_papers |-> 0, conflicts |-> <<>>, errors |-> 0]

-----------------------------------------------------------------------------
(* State machine *)

Init ==
    /\ db = <<>>
    /\ upd = <<>>
    /\ op = "idle"
    /\ pre = <<>>
    /\ policy = "mark"
    /\ batch = <<>>
    /\ loaded = TRUE
    /\ saved = "none"
    /\ added = <<>>
    /\ conflicted = <<>>
    /\ msgs = <<>>
    /\ file = <<>>
    /\ result = NoResult

\* add_papers whose load_database fails: early return
AddPapersLoadFails(new_papers, conflict_resolution) ==
    /\ loaded' = FALSE
    /\ saved' = "none"
    /\ added' = <<>>
    /\ conflicted' = new_papers
    /\ msgs' = <<"load_failed">>
    /\ db' = db

\* add_papers whose load_database succeeds
AddPapersLoaded(new_papers, conflict_resolution, outcome) ==
    LET r == add_papers(db, new_papers, conflict_resolution)
    IN  /\ loaded' = TRUE
        /\ saved' = outcome
        /\ msgs' = <<>>
        /\ IF outcome = "ok"
           THEN /\ db' = r.sorted
                /\ added' = r.added
                /\ conflicted' = r.conflicted
           ELSE /\ added' = <<>>
                /\ conflicted' = r.passed
                /\ IF outcome = "unwritten"
                   THEN db' = db
                   ELSE \E k \in 0..(Len(r.sorted) - 1) :
                            db' = SubSeq(r.sorted, 1, k)

\* one call of add_papers with a batch of the given set
AddPapersFrom(batches) ==
    /\ op = "idle"
    /\ \E new_papers \in batches, conflict_resolution \in Policies :
        /\ Len(db) + Len(new_papers) <= MaxDb
        /\ op' = "add"
        /\ pre' = db
        /\ policy' = conflict_resolution
        /\ batch' = new_papers
        /\ \/ AddPapersLoadFails(new_papers, conflict_resolution)
           \/ \E outcome \in SaveOutcomes :
                  AddPapersLoaded(new_papers, conflict_resolution, outcome)
    /\ UNCHANGED <<upd, file, result>>

AddPapers == AddPapersFrom(Batches)

\* the tool's process ends; only the files survive
Exit ==
    /\ op # "idle"
    /\ op' = "idle"
    /\ pre' = <<>>
    /\ policy' = "mark"
    /\ batch' = <<>>
    /\ loaded' = TRUE
    /\ saved' = "none"
    /\ added' = <<>>
    /\ conflicted' = <<>>
    /\ msgs' = <<>>
    /\ file' = <<>>
    /\ result' = NoResult
    /\ UNCHANGED <<db, upd>>

Next == AddPapers \/ Exit

Spec == Init /\ [][Next]_vars

\* the same engine fed with records of several categories and dates
AddPapersOrder == AddPapersFrom(OrderBatches)

NextOrder == AddPapersOrder \/ Exit

SpecOrder == Init /\ [][NextOrder]_vars

\* the same engine fed with unflagged records of two categories, among them
\* a record that matches one record by DOI and another one by title
RegroupCategories == {<<"make_cot_short">>, <<"zzz">>}

RegroupPool ==
    {p \in [doi : PoolDois, title : PoolTitles, notes : {E},
             category : RegroupCategories, submission_time : PoolTimes,
             conflict_marker : {FALSE}] : p.doi # E \/ p.title # E}

RegroupBatches == SeqsUpTo(RegroupPool, MaxBatch)

AddPapersRegroup == AddPapersFrom(RegroupBatches)

NextRegroup == AddPapersRegroup \/ Exit

SpecRegroup == Init /\ [][NextRegroup]_vars

-----------------------------------------------------------------------------
(* Update files: submit_logic writes them, process_updates merges them *)

\* SubmitLogic.save_to_file_rewrite on an update file: the file becomes the
\* list being edited
SaveUpdateFile ==
    /\ op = "idle"
    /\ \E papers \in UpdateFiles : upd' = papers
    /\ UNCHANGED <<db, op, pre, policy, batch, loaded, saved, added,
                   conflicted, msgs, file, result>>

\* process_updates over one update file.  invalid is the set of records that
\* validate_paper_fields rejects, is_remove_added_paper the configured
\* remove_added_paper_in_template; AI generation is switched off.
\* current_papers is the list of papers that read_data finds in the file,
\* and the rewrite of the update file in step 6 succeeds
ProcessUpdates ==
    /\ op = "idle"
    /\ \E conflict_resolution \in Policies, is_remove_added_paper \in BOOLEAN :
        LET current_papers == load_database(upd)
            unique_papers == _deduplicate_papers(current_papers)
        IN  \E invalid \in SUBSET DOMAIN unique_papers :
            LET valid_papers == ValidPapers(unique_papers, invalid)
            IN  /\ op' = "update"
                /\ pre' = db
                /\ file' = upd
                /\ policy' = conflict_resolution
                /\ batch' = valid_papers
                /\ IF valid_papers = <<>>
                   THEN /\ UNCHANGED <<db, upd, added, conflicted, msgs>>
                        /\ loaded' = TRUE
                        /\ saved' = "none"
                        /\ result' = [NoResult EXCEPT !.errors = Cardinality(invalid)]
                   ELSE /\ Len(db) + Len(valid_papers) <= MaxDb
                        /\ \/ AddPapersLoadFails(valid_papers, conflict_resolution)
                           \/ \E outcome \in SaveOutcomes :
                                  AddPapersLoaded(valid_papers, conflict_resolution,
                                                  outcome)
                        /\ upd' = IF is_remove_added_paper
                                  THEN RemoveProcessed(upd, added' \o conflicted')
                                  ELSE upd
                        /\ result' = [success |-> added' # <<>> \/ conflicted' # <<>>,
                                      new_papers |-> Len(added'),
                                      conflicts |-> conflicted',
                                      errors |-> Cardinality(invalid)]

NextUpdate == SaveUpdateFile \/ ProcessUpdates \/ Exit

SpecUpdate == Init /\ [][NextUpdate]_vars

-----------------------------------------------------------------------------
(* Comparisons of two records: is_same_identity and _papers_fields_equal *)

\* DOIs and titles as they are typed: upper case, a URL or doi: prefix, the
\* conflict marker, white space
CompareDois ==
    {E, <<"10.1/a">>, <<"10.1/A">>, <<"doi:", "10.1/a">>,
     <<"10.1/a", ConflictMarker>>, <<ConflictMarker, WS, "10.1/a">>, <<WS>>}

CompareTitles == {E, <<"foo">>, <<"FOO", WS>>}

CompareNotes == {E, <<"n1">>, <<"n1", WS>>, <<WS>>}

CompareTimes == {1, 2}

ComparePool ==
    [doi : CompareDois, title : CompareTitles, notes : CompareNotes,
     category : PoolCategories, submission_time : CompareTimes,
     conflict_marker : BOOLEAN]

\* ignore_fields arguments: the default, the default and a content field
IgnoreLists == {SystemFields, SystemFields \cup {"notes"}}

NoComparison ==
    [same_identity |-> FALSE, ignore_fields |-> {}, subset |-> FALSE,
     strict |-> FALSE]

\* two records are at hand, nothing has been computed
InitCompare ==
    /\ db = <<>>
    /\ upd = <<>>
    /\ op = "idle"
    /\ pre = <<>>
    /\ policy = "mark"
    /\ batch \in [1..2 -> ComparePool]
    /\ loaded = TRUE
    /\ saved = "none"
    /\ added = <<>>
    /\ conflicted = <<>>
    /\ msgs = <<>>
    /\ file = <<>>
    /\ result = NoComparison

\* is_same_identity(a, b) and _papers_fields_equal(a, b, ...) in both modes
Compare ==
    /\ op = "idle"
    /\ op' = "compare"
    /\ \E ignore_fields \in IgnoreLists :
           result' = [same_identity |-> is_same_identity(batch[1], batch[2]),
                      ignore_fields |-> ignore_fields,
                      subset |-> _papers_fields_equal(batch[1], batch[2], FALSE,
                                                      ignore_fields),
                      strict |-> _papers_fields_equal(batch[1], batch[2], TRUE,
                                                      ignore_fields)]
    /\ UNCHANGED <<db, upd, pre, policy, batch, loaded, saved, added,
                   conflicted, msgs, file>>

NextCompare == Compare

SpecCompare == InitCompare /\ [][NextCompare]_vars

-----------------------------------------------------------------------------
(* README generation: convert.py renders the tables of the public list *)

\* every loaded paper is displayed, flagged or not
display_papers_All(papers) == papers

\* the loop of generate_readme_tables that filters the loaded papers;
\* show_in_readme keeps its default True in every record of the model
display_papers(papers) == SelectSeq(papers, LAMBDA p : ~p.conflict_marker)

\* _group_papers_by_category(display).get(cat): the papers whose category
\* is cat, newest first; no record of the model holds a ';' separator
papers_by_category(display, cat) ==
    SortPapersDesc(SelectSeq(display, LAMBDA p : Strip(p.category) = <<cat>>))

\* the rows of the tables, one table per configured category in its order
\* (every configured category is enabled and none has a primary_category)
RECURSIVE TablesFrom(_, _)
TablesFrom(display, i) ==
    IF i > Len(ActiveCategories) THEN <<>>
    ELSE papers_by_category(display, ActiveCategories[i])
         \o TablesFrom(display, i + 1)

\* the papers that generate_readme_tables renders a row for
generate_readme_tables(rows, success) ==
    IF ~success THEN <<>>
    ELSE TablesFrom(display_papers(load_database(rows)), 1)

\* one run of convert.py; it reads the collection and does not write it
GenerateReadme ==
    /\ op = "idle"
    /\ op' = "readme"
    /\ pre' = db
    /\ \E success \in BOOLEAN :
        /\ loaded' = success
        /\ result' = [rows |-> generate_readme_tables(db, success)]
    /\ UNCHANGED <<db, upd, policy, batch, saved, added, conflicted, msgs, file>>

NextReadme == AddPapers \/ GenerateReadme \/ Exit

SpecReadme == Init /\ [][NextReadme]_vars

-----------------------------------------------------------------------------
(* Deletion from the core database: DatabaseManager.delete_paper *)

\* generate_paper_uid(title, doi): a deterministic function of title and DOI
generate_paper_uid(title, doi) == <<"uid">> \o title \o <<"/">> \o doi

\* stored records: the uid is empty or the one derived from title and DOI
DeletePool ==
    {p \in [doi : PoolDois, title : PoolTitles, notes : {E},
             category : PoolCategories, submission_time : PoolTimes,
             conflict_marker : BOOLEAN,
             uid : {E} \cup {generate_paper_uid(t, d) :
                                t \in PoolTitles, d \in PoolDois}] :
        /\ p.doi # E \/ p.title # E
        /\ p.uid # E => p.uid = generate_paper_uid(p.title, p.doi)}

\* collections as add_papers writes them: one live record per identity,
\* every flagged record in the run in front of a live record it matches
DeleteCollections ==
    {rows \in SeqsUpTo(DeletePool, MaxDb) :
        /\ \A i, j \in DOMAIN rows :
               (i < j /\ ~rows[i].conflict_marker /\ ~rows[j].conflict_marker)
                   => ~is_same_identity(rows[i], rows[j])
        /\ \A i \in DOMAIN rows : rows[i].conflict_marker =>
               \E j \in DOMAIN rows :
                   /\ i < j /\ ~rows[j].conflict_marker
                   /\ \A k \in i..(j - 1) : rows[k].conflict_marker
                   /\ is_same_identity(rows[i], rows[j])}

\* the test of the loop of delete_paper on one stored record
DeleteMatches(p, target_paper) ==
    \/ p.uid # E /\ target_paper.uid # E /\ p.uid = target_paper.uid
    \/ is_same_identity(p, target_paper)

\* new_papers of delete_paper: the papers without the first one that matches
RECURSIVE DeleteFirstMatch(_, _)
DeleteFirstMatch(papers, target_paper) ==
    IF papers = <<>> THEN <<>>
    ELSE IF DeleteMatches(Head(papers), target_paper) THEN Tail(papers)
    ELSE <<Head(papers)>> \o DeleteFirstMatch(Tail(papers), target_paper)

InitDelete ==
    /\ db \in DeleteCollections
    /\ upd = <<>>
    /\ op = "idle"
    /\ pre = <<>>
    /\ policy = "mark"
    /\ batch = <<>>
    /\ loaded = TRUE
    /\ saved = "none"
    /\ added = <<>>
    /\ conflicted = <<>>
    /\ msgs = <<>>
    /\ file = <<>>
    /\ result = NoResult

\* one call of delete_paper(target_paper)
DeletePaper ==
    /\ op = "idle"
    /\ op' = "delete"
    /\ pre' = db
    /\ \E target_paper \in DeletePool :
        /\ batch' = <<target_paper>>
        /\ \/ /\ loaded' = FALSE
              /\ saved' = "none"
              /\ db' = db
              /\ result' = [success |-> FALSE]
           \/ LET papers == load_database(db)
                  new_papers == DeleteFirstMatch(papers, target_paper)
              IN  /\ loaded' = TRUE
                  /\ IF Len(new_papers) < Len(papers)
                     THEN \E outcome \in SaveOutcomes :
                            /\ saved' = outcome
                            /\ result' = [success |-> outcome = "ok"]
                            /\ CASE outcome = "ok" -> db' = new_papers
                                 [] outcome = "unwritten" -> db' = db
                                 [] OTHER ->
                                      \E k \in 0..(Len(new_papers) - 1) :
                                          db' = SubSeq(new_papers, 1, k)
                     ELSE /\ saved' = "none"
                          /\ db' = db
                          /\ result' = [success |-> FALSE]
    /\ UNCHANGED <<upd, policy, added, conflicted, msgs, file>>

NextDelete == DeletePaper \/ Exit

SpecDelete == InitDelete /\ [][NextDelete]_vars

-----------------------------------------------------------------------------
(* Manual conflict resolution: SubmitLogic works on its list self.papers,    *)
(* held in db while the list is being edited                                 *)

\* find_base_paper_index: the first other record that is same-identity with
\* the conflict record and unflagged; 0 stands for the -1 of the code
find_base_paper_index(papers, conflict_index) ==
    LET S == {i \in DOMAIN papers :
                 /\ i # conflict_index
                 /\ is_same_identity(papers[i], papers[conflict_index])
                 /\ ~papers[i].conflict_marker}
    IN  IF conflict_index \in DOMAIN papers /\ S # {} THEN Min(S) ELSE 0

\* SubmitLogic.delete_paper that removes the last record of the list
delete_paper_Pop(papers, index) ==
    IF index \in DOMAIN papers THEN SubSeq(papers, 1, Len(papers) - 1)
    ELSE papers

\* SubmitLogic.delete_paper(index): del self.papers[index]
delete_paper(papers, index) ==
    IF index \in DOMAIN papers
    THEN SubSeq(papers, 1, index - 1) \o SubSeq(papers, index + 1, Len(papers))
    ELSE papers

\* setattr(base, field, value) for the fields of final_data that a Paper has
ApplyFinalData(base, final_data) ==
    [k \in DOMAIN base |->
        IF k \in DOMAIN final_data THEN final_data[k] ELSE base[k]]

merge_papers_custom(papers, base_index, conflict_index, final_data) ==
    LET base == [ApplyFinalData(papers[base_index], final_data)
                     EXCEPT !.conflict_marker = FALSE]
    IN  delete_paper([papers EXCEPT ![base_index] = base], conflict_index)

\* what the dialog hands over: the chosen value of every field it shows; the
\* last one carries a key that a Paper does not have
FinalDatas ==
    [doi : PoolDois, title : {<<"foo">>, <<"bar">>}, notes : PoolNotes]
    \cup {[notes |-> <<"n1">>, remark |-> <<"r">>]}

\* _open_conflict_resolution_dialog confirmed for a flagged record of the list
MergePapersCustom ==
    /\ op = "idle"
    /\ \E conflict_idx \in DOMAIN db, final_data \in FinalDatas :
        LET base_idx == find_base_paper_index(db, conflict_idx)
        IN  /\ db[conflict_idx].conflict_marker
            /\ base_idx # 0
            /\ db' = merge_papers_custom(db, base_idx, conflict_idx, final_data)
            /\ result' = [base_index |-> base_idx,
                          conflict_index |-> conflict_idx,
                          final_data |-> final_data]
    /\ op' = "merge"
    /\ pre' = db
    /\ UNCHANGED <<upd, policy, batch, loaded, saved, added, conflicted,
                   msgs, file>>

NextMerge == MergePapersCustom \/ Exit

SpecMerge == InitDelete /\ [][NextMerge]_vars

-----------------------------------------------------------------------------
(* In-file de-duplication on its own: any list of papers read from a file *)

MaxDedup == 3

DedupPool ==
    [doi : PoolDois, title : PoolTitles, notes : PoolNotes,
     category : PoolCategories, submission_time : PoolTimes,
     conflict_marker : {FALSE}]

InitDedup ==
    /\ db = <<>>
    /\ upd = <<>>
    /\ op = "idle"
    /\ pre = <<>>
    /\ policy = "mark"
    /\ batch \in SeqsUpTo(DedupPool, MaxDedup)
    /\ loaded = TRUE
    /\ saved = "none"
    /\ added = <<>>
    /\ conflicted = <<>>
    /\ msgs = <<>>
    /\ file = <<>>
    /\ result = NoResult

\* _deduplicate_papers(current_papers)
Deduplicate ==
    /\ op = "idle"
    /\ op' = "dedup"
    /\ result' = [unique |-> _deduplicate_papers(batch)]
    /\ UNCHANGED <<db, upd, pre, policy, batch, loaded, saved, added,
                   conflicted, msgs, file>>

NextDedup == Deduplicate

SpecDedup == InitDedup /\ [][NextDedup]_vars

-----------------------------------------------------------------------------
(* Store adapter: UpdateFileUtils writes a list of papers and reads it back *)

MaxStore == 2

\* Paper objects handed to the writer: the DOI is already clean, the other
\* strings are as typed
StoreCategories ==
    {<<"make_cot_short">>,
     <<"make_cot_strong", "|", "make_cot_short">>,
     <<"make_cot_strong", WS, "|", WS, "make_cot_short">>}

StorePool ==
    [doi : {E, <<"10.1/A">>}, title : {<<"foo">>, <<"FOO", WS>>},
     notes : {E, <<WS>>}, category : StoreCategories,
     submission_time : PoolTimes, conflict_marker : BOOLEAN]

StoreLists == SeqsUpTo(StorePool, MaxStore)

StoreFormats == {"csv", "json"}

\* str(val).lower() of a bool
BoolCell(b) == IF b THEN <<"true">> ELSE <<"false">>

\* save_papers_to_csv: one row of cells per paper
save_papers_to_csv(papers) ==
    [i \in DOMAIN papers |->
        [papers[i] EXCEPT
            !.category = Join(_array_string_to_json_list(@), "|"),
            !.conflict_marker = BoolCell(@)]]

\* save_papers_to_json: one object per paper, array fields as lists
save_papers_to_json(papers) ==
    [i \in DOMAIN papers |->
        [papers[i] EXCEPT !.category = _array_string_to_json_list(@)]]

\* _convert_type(value, 'bool') of a cell
CellToBool(cell) ==
    Lower(Strip(cell)) \in {<<"true">>, <<"yes">>, <<"1">>, <<"on">>}

\* load_papers_from_csv: array cells normalized, cells converted by type
load_papers_from_csv(rows) ==
    [i \in DOMAIN rows |->
        _dict_to_paper([rows[i] EXCEPT
            !.category = _normalize_array_string(@),
            !.conflict_marker = CellToBool(@)])]

\* load_papers_from_json: the list of an array field is joined again
load_papers_from_json(rows) ==
    [i \in DOMAIN rows |->
        _dict_to_paper([rows[i] EXCEPT
            !.category = Join(StrippedItems(@), "|")])]

\* write_data: the file written for the papers
SavePapers ==
    /\ op = "idle"
    /\ \E papers \in StoreLists, format \in StoreFormats :
        /\ batch' = papers
        /\ file' = [format |-> format,
                    rows |-> IF format = "csv" THEN save_papers_to_csv(papers)
                             ELSE save_papers_to_json(papers)]
    /\ op' = "save"
    /\ UNCHANGED <<db, upd, pre, policy, loaded, saved, added, conflicted,
                   msgs, result>>

\* read_data of the file just written
LoadPapers ==
    /\ op = "save"
    /\ op' = "load"
    /\ result' = [papers |-> IF file.format = "csv"
                             THEN load_papers_from_csv(file.rows)
                             ELSE load_papers_from_json(file.rows)]
    /\ UNCHANGED <<db, upd, pre, policy, batch, loaded, saved, added,
                   conflicted, msgs, file>>

NextStore == SavePapers \/ LoadPapers \/ Exit

SpecStore == Init /\ [][NextStore]_vars

-----------------------------------------------------------------------------
(* Vocabulary of the properties *)

\* the last operation was an add_papers call that loaded and saved
Succeeded == op = "add" /\ loaded /\ saved = "ok"

IsLive(p) == ~p.conflict_marker

Count(rows, p) == Cardinality({i \in DOMAIN rows : rows[i] = p})

Range(rows) == {rows[i] : i \in DOMAIN rows}

\* the same records, whatever their order
SameRecords(rows1, rows2) ==
    /\ Len(rows1) = Len(rows2)
    /\ \A p \in Range(rows1) \cup Range(rows2) : Count(rows1, p) = Count(rows2, p)

\* the groups add_papers rebuilds from the rows it loaded
RegroupedPre == add_papers(pre, <<>>, policy).regrouped

-----------------------------------------------------------------------------
(* C1: every persisted collection holds no two records that are              *)
(* same-identity and both unflagged.                                          *)
C1_AtMostOneLive ==
    \A i, j \in DOMAIN db :
        (i < j /\ IsLive(db[i]) /\ IsLive(db[j]))
            => ~is_same_identity(db[i], db[j])

\* a flagged conflict sits beside its live record after a merge
C1_Witness ==
    /\ Succeeded
    /\ \E i, j \in DOMAIN db :
           /\ IsLive(db[i]) /\ ~IsLive(db[j])
           /\ is_same_identity(db[i], db[j])
           /\ db[i].doi # db[j].doi

-----------------------------------------------------------------------------
(* C10: when add_papers regroups the existing collection, an orphan (a       *)
(* flagged record with no same-identity live record) is promoted to live:    *)
(* it is kept in the persisted collection unflagged, and the call succeeds.  *)

Promoted(p) == [p EXCEPT !.conflict_marker = FALSE]

\* flagged rows of the loaded collection that match none of its live rows
Orphans(rows) ==
    {i \in DOMAIN rows :
        /\ ~IsLive(rows[i])
        /\ \A j \in DOMAIN rows :
               IsLive(rows[j]) => ~is_same_identity(rows[i], rows[j])}

FirstOrphans(rows) ==
    {i \in Orphans(rows) :
        \A j \in Orphans(rows) : j < i => ~is_same_identity(rows[i], rows[j])}

\* an incoming record of the call replaces the group of p
ReplacedByIncoming(p) ==
    /\ policy = "replace"
    /\ \E k \in DOMAIN batch : is_same_identity(batch[k], p)

C10_EveryOrphan ==
    Succeeded =>
        \A i \in Orphans(load_database(pre)) :
            ~ReplacedByIncoming(load_database(pre)[i])
                => Count(db, Promoted(load_database(pre)[i])) >= 1

-----------------------------------------------------------------------------
(* Vocabulary of the merge claims *)

\* rows of the flagged records that regrouping turns into live records: the
\* ones matching no live record and no record promoted before them
RECURSIVE PromotedRows(_, _, _)
PromotedRows(rows, i, acc) ==
    IF i > Len(rows) THEN acc
    ELSE PromotedRows(rows, i + 1,
             IF /\ ~IsLive(rows[i])
                /\ \A j \in DOMAIN rows :
                       (IsLive(rows[j]) \/ j \in acc)
                           => ~is_same_identity(rows[i], rows[j])
             THEN acc \cup {i} ELSE acc)

WithOrphansPromoted(rows) ==
    [i \in DOMAIN rows |->
        IF i \in PromotedRows(rows, 1, {}) THEN Promoted(rows[i]) ELSE rows[i]]

Flagged(p) == [p EXCEPT !.conflict_marker = TRUE]

\* equal in every field that is not a system field
SameContent(a, b) == _papers_fields_equal(a, b, TRUE, SystemFields)

\* x supplies a subset of the non-empty fields of ex and agrees on them:
\* _papers_fields_equal(new = x, exist = ex) in subset mode
LessComplete(x, ex) == _papers_fields_equal(x, ex, FALSE, SystemFields)

PreRows == load_database(pre)

\* the call folded exactly one incoming record
OneIncoming == Succeeded /\ Len(batch) = 1

\* the incoming record matches a live record of the existing collection
MatchesLive(x) ==
    \E i \in DOMAIN PreRows : IsLive(PreRows[i]) /\ is_same_identity(x, PreRows[i])

\* the incoming record is a (possibly less complete) copy of an existing
\* same-identity record
IsResubmission(x) ==
    \E i \in DOMAIN PreRows :
        is_same_identity(x, PreRows[i]) /\ LessComplete(x, PreRows[i])

-----------------------------------------------------------------------------
(* C2: under policy mark, every record of the existing collection and every  *)
(* incoming record that is not a duplicate is present in the persisted       *)
(* collection after add_papers: an incoming record is either stored with its *)
(* content or covered by a stored same-identity record that has all of its   *)
(* content.                                                                  *)
C2_NothingDropped ==
    (Succeeded /\ policy = "mark") =>
        /\ \A p \in Range(PreRows) : \E k \in DOMAIN db : SameContent(db[k], p)
        /\ \A x \in Range(batch) :
               \E k \in DOMAIN db :
                   \/ SameContent(db[k], x)
                   \/ is_same_identity(x, db[k]) /\ LessComplete(x, db[k])

-----------------------------------------------------------------------------
(* C3: an incoming record that is a less complete copy of an existing live   *)
(* same-identity record is a duplicate: it is skipped, appears in neither    *)
(* added nor conflicted, and the collection gains no record.                 *)
C3_LessCompleteIsDuplicate ==
    (OneIncoming /\ \E i \in DOMAIN PreRows :
                        /\ IsLive(PreRows[i])
                        /\ is_same_identity(batch[1], PreRows[i])
                        /\ LessComplete(batch[1], PreRows[i]))
        => /\ added = <<>>
           /\ conflicted = <<>>
           /\ Len(db) = Len(pre)

-----------------------------------------------------------------------------
(* C4: under policy mark, an incoming record that matches an existing live   *)
(* record and is not a duplicate is persisted flagged and returned in        *)
(* conflicted, not in added; the collection grows by exactly 1 and no new    *)
(* unflagged record of that identity appears.                                *)
C4_MarkedAsConflict ==
    (OneIncoming /\ policy = "mark" /\ MatchesLive(batch[1])
                 /\ ~IsResubmission(batch[1]))
        => /\ conflicted = <<Flagged(batch[1])>>
           /\ added = <<>>
           /\ Len(db) = Len(pre) + 1
           /\ Count(db, Flagged(batch[1])) >= 1
           /\ \A k \in DOMAIN db :
                  (IsLive(db[k]) /\ is_same_identity(db[k], batch[1]))
                      => \E i \in DOMAIN PreRows : db[k] = Promoted(PreRows[i])

-----------------------------------------------------------------------------
(* C5: merging the same batch twice with policy mark, the first result       *)
(* persisted and reloaded in between: the second add_papers returns empty    *)
(* added and conflicted lists and the collection has the same records as     *)
(* after the first call.                                                     *)

\* the second merge of the batch, applied to what the first one persisted
SecondMerge == add_papers(db, batch, "mark")

HasIdentity(p) == is_same_identity(p, p)

-----------------------------------------------------------------------------
(* C6: under policy replace, a non-duplicate incoming record that matches    *)
(* live records removes every matched group (live record and attached        *)
(* conflicts), is persisted unflagged as the only record of those groups,    *)
(* and is returned in added.                                                 *)

RECURSIVE SumSizes(_, _, _)
SumSizes(groups, S, i) ==
    IF i > Len(groups) THEN 0
    ELSE (IF i \in S THEN 1 + Len(groups[i].conf) ELSE 0)
         + SumSizes(groups, S, i + 1)

\* number of records in the groups whose live record matches x
MatchedSize(x) == SumSizes(RegroupedPre, SameIdentityIndices(RegroupedPre, x), 1)

C6_ReplaceRemovesGroups ==
    (OneIncoming /\ policy = "replace" /\ MatchesLive(batch[1])
                 /\ ~IsResubmission(batch[1]))
        => /\ added = <<batch[1]>>
           /\ conflicted = <<>>
           /\ Count(db, Promoted(batch[1])) >= 1
           /\ Len(db) = Len(pre) - MatchedSize(batch[1]) + 1
           /\ \A k \in DOMAIN db :
                  is_same_identity(db[k], batch[1]) /\ IsLive(db[k])
                      => db[k] = Promoted(batch[1])

-----------------------------------------------------------------------------
(* C7: under policy skip, a non-duplicate incoming record that matches an    *)
(* existing live record leaves the collection unchanged and is returned in   *)
(* neither added nor conflicted.                                             *)

SkipCase ==
    /\ OneIncoming /\ policy = "skip"
    /\ MatchesLive(batch[1])
    /\ ~IsResubmission(batch[1])

C7_Original ==
    SkipCase => /\ added = <<>>
                /\ conflicted = <<>>
                /\ SameRecords(db, PreRows)

\* amended: the collection keeps its records, orphans being promoted
C7_SkipKeepsRecords ==
    SkipCase => /\ added = <<>>
                /\ conflicted = <<>>
                /\ SameRecords(db, WithOrphansPromoted(PreRows))

\* a conflicting record was skipped while an orphan of another identity
\* was promoted
C7_Witness ==
    /\ SkipCase
    /\ PromotedRows(PreRows, 1, {}) # {}
    /\ \A i \in DOMAIN PreRows :
           is_same_identity(batch[1], PreRows[i])
               => ~LessComplete(PreRows[i], batch[1])

-----------------------------------------------------------------------------
(* C8: add_papers is all-or-nothing: when loading or saving fails the        *)
(* persisted collection is what it was before the call, added is empty and   *)
(* the failure is signalled to the caller.                                   *)

Failed == op = "add" /\ ~(loaded /\ saved = "ok")

C8_AllOrNothing ==
    Failed => /\ db = pre
              /\ added = <<>>
              /\ msgs # <<>>

\* the collection half: no failed call changes the collection
C8_CollectionUntouched == Failed => db = pre

-----------------------------------------------------------------------------
(* C9: process_updates removes a record from the update file only if the     *)
(* record was absorbed into the persisted collection, as a live record or as *)
(* a flagged conflict; a record whose merge failed to load or save stays in  *)
(* the update file.                                                          *)

\* records of the update file that the call removed from it
RemovedFromFile ==
    {p \in Range(load_database(file)) : Count(upd, p) < Count(load_database(file), p)}

C9_OnlyAbsorbedRemoved ==
    op = "update" =>
        \A p \in RemovedFromFile :
            /\ loaded /\ saved = "ok"
            /\ \E k \in DOMAIN db : SameContent(db[k], p)

-----------------------------------------------------------------------------
(* C11: in every collection that add_papers persists, the flagged conflicts  *)
(* of a group form a contiguous run immediately before the group's live      *)
(* record, ordered among themselves by submission_time descending.           *)

\* row i is flagged and rows i+1..j-1 are flagged too, row j being live
RunEndsAt(rows, i, j) ==
    /\ i < j /\ j \in DOMAIN rows
    /\ IsLive(rows[j])
    /\ \A k \in i..(j - 1) : ~IsLive(rows[k])

C11_ConflictsBeforeLive ==
    Succeeded =>
        \A i \in DOMAIN db :
            ~IsLive(db[i]) =>
                /\ \E j \in DOMAIN db :
                       RunEndsAt(db, i, j) /\ is_same_identity(db[i], db[j])
                /\ (i < Len(db) /\ ~IsLive(db[i + 1]))
                       => db[i].submission_time >= db[i + 1].submission_time

\* the ordering half alone: a flagged record that has a same-identity live
\* record in the collection sits in the run before such a record
C11_AttachedBeforeLive ==
    Succeeded =>
        \A i \in DOMAIN db :
            (~IsLive(db[i]) /\ \E j \in DOMAIN db :
                                   IsLive(db[j]) /\ is_same_identity(db[i], db[j]))
                => /\ \E j \in DOMAIN db :
                          RunEndsAt(db, i, j) /\ is_same_identity(db[i], db[j])
                   /\ (i < Len(db) /\ ~IsLive(db[i + 1]))
                          => db[i].submission_time >= db[i + 1].submission_time

-----------------------------------------------------------------------------
(* C12: in every collection that add_papers persists, groups are ordered by  *)
(* the configured order of the live record's first category token, groups of *)
(* a category outside the active list come after all mapped categories, and  *)
(* within one category the live records are in submission_time descending    *)
(* order.                                                                    *)

FirstCategory(p) == Strip(FirstSegment(p.category))

Mapped(c) == Len(c) = 1 /\ \E n \in DOMAIN ActiveCategories : ActiveCategories[n] = c[1]

ConfiguredOrder(c) == CHOOSE n \in DOMAIN ActiveCategories : ActiveCategories[n] = c[1]

InCategoryOrder(p, q) ==
    LET c == FirstCategory(p)
        d == FirstCategory(q)
    IN  /\ (Mapped(c) /\ Mapped(d)) => ConfiguredOrder(c) <= ConfiguredOrder(d)
        /\ ~Mapped(c) => ~Mapped(d)
        /\ c = d => p.submission_time >= q.submission_time

C12_GroupsInCategoryOrder ==
    Succeeded =>
        \A i, j \in DOMAIN db :
            (i < j /\ IsLive(db[i]) /\ IsLive(db[j])) => InCategoryOrder(db[i], db[j])

\* the call moved the incoming record in front of the stored one, whose
\* multi-valued category counts by its first token
C12_Witness ==
    /\ Succeeded /\ Len(pre) = 1 /\ Len(batch) = 1
    /\ db = <<batch[1], pre[1]>>
    /\ IsLive(db[1]) /\ IsLive(db[2])
    /\ Len(pre[1].category) > 1
    /\ Mapped(FirstCategory(db[1])) /\ Mapped(FirstCategory(db[2]))
    /\ ConfiguredOrder(FirstCategory(db[1])) < ConfiguredOrder(FirstCategory(db[2]))
    /\ db[1].submission_time < db[2].submission_time

-----------------------------------------------------------------------------
(* C13: in every collection that add_papers persists, every flagged record   *)
(* has an unflagged same-identity record in the same collection, also when   *)
(* an incoming record arrives with its marker already set.                   *)
C13_FlaggedHasLive ==
    Succeeded =>
        \A i \in DOMAIN db :
            ~IsLive(db[i]) =>
                \E j \in DOMAIN db : IsLive(db[j]) /\ is_same_identity(db[i], db[j])

\* the same for records that can be identified
C13_IdentifiedFlaggedHasLive ==
    Succeeded =>
        \A i \in DOMAIN db :
            (~IsLive(db[i]) /\ HasIdentity(db[i])) =>
                \E j \in DOMAIN db : IsLive(db[j]) /\ is_same_identity(db[i], db[j])

-----------------------------------------------------------------------------
(* C14: for all records a, is_same_identity(a, a) is true.                   *)

Compared == op = "compare"

C14_Original ==
    (Compared /\ batch[1] = batch[2]) => result.same_identity

\* what identifies a record: a DOI that is not empty once the marker, the
\* prefix and white space are removed, or a title that is not blank
NormalizedDoi(p) == _normalize_doi_for_compare(p.doi)

Identified(p) == NormalizedDoi(p) # E \/ Strip(p.title) # E

\* amended: reflexive exactly on the records that can be identified
C14_ReflexiveIfIdentified ==
    (Compared /\ batch[1] = batch[2]) => (result.same_identity <=> Identified(batch[1]))

C14_Witness ==
    /\ Compared /\ batch[1] = batch[2]
    /\ result.same_identity
    /\ batch[1].title = E /\ batch[1].doi # NormalizedDoi(batch[1])

-----------------------------------------------------------------------------
(* C15: for all records a, b whose DOIs are non-empty and equal after        *)
(* normalization (marker removed, URL or doi: prefix stripped, trimmed,      *)
(* lowercased), is_same_identity(a, b) is true whatever their titles are.    *)

\* the normalization as the specification words it
SpecNormalizedDoi(doi) ==
    LET unmarked == Strip(SelectSeq(doi, LAMBDA t : t # ConflictMarker))
        bare == IF unmarked # E /\ Head(unmarked) \in DoiPrefixes
                THEN Strip(Tail(unmarked)) ELSE unmarked
    IN  [i \in DOMAIN bare |-> LowerTok(bare[i])]

C15_EqualDoiSameIdentity ==
    (Compared /\ SpecNormalizedDoi(batch[1].doi) # E
              /\ SpecNormalizedDoi(batch[1].doi) = SpecNormalizedDoi(batch[2].doi))
        => result.same_identity

\* DOIs typed differently, titles that differ
C15_Witness ==
    /\ Compared /\ result.same_identity
    /\ batch[1].doi = <<"10.1/A">> /\ batch[2].doi = <<"doi:", "10.1/a">>
    /\ batch[1].title = <<"foo">> /\ batch[2].title = E

-----------------------------------------------------------------------------
(* C16: two records that both have an empty DOI and an empty title are never *)
(* same-identity, so add_papers never groups or merges blank records with    *)
(* each other: every blank record, stored or incoming, stays a record of its *)
(* own.                                                                      *)

Blank(p) == Strip(p.doi) = E /\ Strip(p.title) = E

BlankCount(rows) == Cardinality({i \in DOMAIN rows : Blank(rows[i])})

C16_BlankNeverGrouped ==
    /\ \A i, j \in DOMAIN db :
           (Blank(db[i]) /\ Blank(db[j])) => ~is_same_identity(db[i], db[j])
    /\ Succeeded => BlankCount(db) = BlankCount(PreRows) + BlankCount(batch)

\* the comparison alone, over records as they are typed
C16_BlankNeverSame ==
    (Compared /\ Blank(batch[1]) /\ Blank(batch[2])) => ~result.same_identity

\* a blank record was merged into a collection that held an equal one
C16_Witness ==
    /\ Succeeded /\ Len(batch) = 1 /\ Len(pre) = 1
    /\ Blank(batch[1]) /\ batch[1] = pre[1]
    /\ db = <<pre[1], batch[1]>>

-----------------------------------------------------------------------------
(* C17: _papers_fields_equal(a, b, complete_compare=False) is true exactly   *)
(* when the non-empty, non-ignored fields of a are a subset of those of b    *)
(* and every such field of a has the same trimmed value in b; it is false    *)
(* whenever a has a non-empty field that b lacks.                            *)

\* the content fields of the record that hold something, as they are stored
StoredNonEmpty(p, ignore) == {k \in StrFields \ ignore : p[k] # E}

C17_Original ==
    Compared =>
        (result.subset <=>
            /\ StoredNonEmpty(batch[1], result.ignore_fields)
                   \subseteq StoredNonEmpty(batch[2], result.ignore_fields)
            /\ \A k \in StoredNonEmpty(batch[1], result.ignore_fields) :
                   Strip(batch[1][k]) = Strip(batch[2][k]))

\* the value that is compared: the DOI after normalization, any other field
\* as it is stored
ComparedValue(p, k) == IF k = "doi" THEN NormalizedDoi(p) ELSE p[k]

ComparedNonEmpty(p, ignore) == {k \in StrFields \ ignore : ComparedValue(p, k) # E}

\* amended: the same, the DOI being taken after normalization
C17_SubsetOfComparedFields ==
    Compared =>
        (result.subset <=>
            /\ ComparedNonEmpty(batch[1], result.ignore_fields)
                   \subseteq ComparedNonEmpty(batch[2], result.ignore_fields)
            /\ \A k \in ComparedNonEmpty(batch[1], result.ignore_fields) :
                   Strip(ComparedValue(batch[1], k)) = Strip(ComparedValue(batch[2], k)))

\* a has notes that b lacks, and DOIs that are typed differently
C17_Witness ==
    /\ Compared /\ ~result.subset
    /\ result.ignore_fields = SystemFields
    /\ batch[1].notes = <<"n1">> /\ batch[2].notes = E
    /\ batch[1].title = batch[2].title
    /\ batch[1].doi = <<"10.1/A">> /\ batch[2].doi = <<"10.1/a">>

-----------------------------------------------------------------------------
(* C18: with the default ignore_fields, the result of _papers_fields_equal,  *)
(* in subset and in strict mode, does not depend on the system fields of     *)
(* either record nor on DOI differences that normalization removes: two      *)
(* calls whose arguments differ only in those respects return the same.      *)

\* the records that differ from p only in system fields and in the typing of
\* a DOI with the same normalized text
Variants(p) ==
    {[p EXCEPT !.doi = d, !.conflict_marker = c, !.submission_time = t] :
        d \in {x \in CompareDois : SpecNormalizedDoi(x) = SpecNormalizedDoi(p.doi)},
        c \in BOOLEAN, t \in CompareTimes}

SameResult(a, b) ==
    /\ _papers_fields_equal(a, b, FALSE, SystemFields) = result.subset
    /\ _papers_fields_equal(a, b, TRUE, SystemFields) = result.strict

-----------------------------------------------------------------------------
(* C19: is_same_identity compares DOIs after removing the conflict marker    *)
(* embedded in them: a record whose DOI carries the marker is same-identity  *)
(* with a record that has the same DOI without it.                           *)

CarriesMarker(doi) == \E i \in DOMAIN doi : doi[i] = ConflictMarker

WithoutMarker(doi) == Strip(SelectSeq(doi, LAMBDA t : t # ConflictMarker))

C19_MarkedDoiSameIdentity ==
    (/\ Compared
     /\ CarriesMarker(batch[1].doi) /\ ~CarriesMarker(batch[2].doi)
     /\ batch[2].doi # E
     /\ WithoutMarker(batch[1].doi) = batch[2].doi)
        => /\ result.same_identity
           /\ is_same_identity(batch[2], batch[1])

\* the marker in front of the DOI, and titles that differ
C19_Witness ==
    /\ Compared /\ result.same_identity
    /\ batch[1].doi = <<ConflictMarker, WS, "10.1/a">>
    /\ batch[2].doi = <<"10.1/a">>
    /\ batch[1].title = <<"foo">> /\ batch[2].title = E

-----------------------------------------------------------------------------
(* C20: the rendered public list never contains a row for a flagged record:  *)
(* every flagged conflict stays in the collection but is left out of the     *)
(* output of generate_readme_tables.                                         *)

Rendered == op = "readme"

C20_NoFlaggedRow ==
    Rendered =>
        /\ \A i \in DOMAIN result.rows : ~result.rows[i].conflict_marker
        /\ db = pre

\* a collection with a flagged record and a live one is rendered
C20_Witness ==
    /\ Rendered /\ loaded
    /\ \E i \in DOMAIN db : db[i].conflict_marker
    /\ result.rows # <<>>

-----------------------------------------------------------------------------
(* C21: saving a collection through the store adapter (CSV or JSON) and      *)
(* loading it again yields, record by record and in the same order, records  *)
(* that are _papers_fields_equal(complete_compare=True, ignore_fields=[])    *)
(* to the originals.                                                         *)

Reloaded == op = "load"

C21_RoundTripEqual ==
    Reloaded =>
        /\ Len(result.papers) = Len(batch)
        /\ \A i \in DOMAIN batch :
               _papers_fields_equal(result.papers[i], batch[i], TRUE, {})

\* what does hold: the records come back in the same number and order and
\* equal in every field that is not an array field
C21_EqualButArrayFields ==
    Reloaded =>
        /\ Len(result.papers) = Len(batch)
        /\ \A i \in DOMAIN batch :
               _papers_fields_equal(result.papers[i], batch[i], TRUE, ArrayFields)

-----------------------------------------------------------------------------
(* C22: a validation failure of one record of an update batch is collected   *)
(* as an error message and does not block the merge of the others: every     *)
(* valid record of the batch is still passed to add_papers.                  *)

Updated == op = "update"

RECURSIVE IsSubsequence(_, _)
IsSubsequence(s, t) ==
    IF s = <<>> THEN TRUE
    ELSE IF t = <<>> THEN FALSE
    ELSE IF Head(s) = Head(t) THEN IsSubsequence(Tail(s), Tail(t))
    ELSE IsSubsequence(s, Tail(t))

\* the records of the file that process_updates validates
Validated == _deduplicate_papers(load_database(file))

-----------------------------------------------------------------------------
(* C23: attachment is always to the first matching live group in collection  *)
(* order: when regrouping, each existing flagged record joins the first live *)
(* record that is same-identity with it, and under mark an incoming          *)
(* conflicting record that matches several live groups is attached to the    *)
(* first of them only.                                                       *)

\* the groups whose live record is same-identity with p
MatchingGroups(groups, p) ==
    {h \in DOMAIN groups : is_same_identity(p, groups[h].main)}

\* every attached record sits in the first group it matches
AttachedToFirst(groups) ==
    \A g \in DOMAIN groups : \A k \in DOMAIN groups[g].conf :
        \A h \in MatchingGroups(groups, groups[g].conf[k]) : g <= h

\* the call flagged its one incoming record
MarkedOne == OneIncoming /\ policy = "mark" /\ conflicted = <<Flagged(batch[1])>>

GroupsAfter == add_papers(pre, batch, policy).groups

C23_AttachedToFirstMatch ==
    Succeeded =>
        /\ AttachedToFirst(RegroupedPre)
        /\ MarkedOne =>
              LET first == Min(MatchingGroups(RegroupedPre, batch[1]))
              IN  /\ Len(GroupsAfter) = Len(RegroupedPre)
                  /\ \A h \in DOMAIN RegroupedPre :
                        /\ GroupsAfter[h].main = RegroupedPre[h].main
                        /\ GroupsAfter[h].conf =
                              IF h = first
                              THEN Append(RegroupedPre[h].conf, Flagged(batch[1]))
                              ELSE RegroupedPre[h].conf
                  \* in the file the record stands in the run of that group
                  /\ \E i, j \in DOMAIN db :
                        /\ db[i] = Flagged(batch[1])
                        /\ RunEndsAt(db, i, j)
                        /\ db[j] = RegroupedPre[first].main

\* the incoming record matches two live groups and is flagged
C23_Witness ==
    /\ MarkedOne
    /\ Cardinality(MatchingGroups(RegroupedPre, batch[1])) = 2

\* a stored flagged record matches two live records when it is regrouped
C23_RegroupWitness ==
    /\ Succeeded
    /\ \E g \in DOMAIN RegroupedPre :
          /\ RegroupedPre[g].conf # <<>>
          /\ Cardinality(MatchingGroups(RegroupedPre, RegroupedPre[g].conf[1])) = 2

-----------------------------------------------------------------------------
(* C24: within one add_papers call each incoming record is classified        *)
(* against the collection as extended by the earlier records of the batch:   *)
(* when two same-identity, non-duplicate records arrive in one batch and     *)
(* match nothing existing, the first becomes a live record and the second    *)
(* is handled as a conflict of the first (flagged under mark), never as a    *)
(* second live record.                                                       *)

\* two unflagged same-identity records arrive together, match no group, and
\* the second is no (possibly less complete) copy of the first
TwoOfOneIdentity ==
    /\ Succeeded /\ Len(batch) = 2
    /\ IsLive(batch[1]) /\ IsLive(batch[2])
    /\ is_same_identity(batch[1], batch[2])
    /\ MatchingGroups(RegroupedPre, batch[1]) = {}
    /\ MatchingGroups(RegroupedPre, batch[2]) = {}
    /\ ~_papers_fields_equal(batch[2], batch[1], FALSE, SystemFields)

C24_SecondIsConflictOfFirst ==
    TwoOfOneIdentity =>
        /\ \E i \in DOMAIN db : db[i] = batch[1]
        /\ Cardinality({i \in DOMAIN db :
                           IsLive(db[i]) /\ is_same_identity(db[i], batch[1])}) = 1
        /\ policy = "mark" =>
               /\ added = <<batch[1]>>
               /\ conflicted = <<Flagged(batch[2])>>
               /\ \E i, j \in DOMAIN db :
                      /\ db[i] = Flagged(batch[2])
                      /\ RunEndsAt(db, i, j)
                      /\ db[j] = batch[1]

\* what the code does keep: never two live records of the pair, and the
\* second record is classified against the first
C24_NeverSecondLive ==
    TwoOfOneIdentity =>
        /\ Cardinality({i \in DOMAIN db :
                           IsLive(db[i]) /\ is_same_identity(db[i], batch[1])}) = 1
        /\ policy = "mark" =>
               /\ added = <<batch[1]>>
               /\ \/ conflicted = <<Flagged(batch[2])>>
                  \/ /\ conflicted = <<>>
                     /\ _papers_fields_equal(batch[1], batch[2], FALSE, SystemFields)

-----------------------------------------------------------------------------
(* C25: process_updates reports success only if at least one record was      *)
(* actually persisted into the core collection (live or flagged), or AI      *)
(* content was generated; an add_papers call that failed to load or save     *)
(* the collection never makes it report success or list conflicts.           *)

\* add_papers was called and loaded and saved the collection
Persisted == loaded /\ saved = "ok"

C25_SuccessMeansPersisted ==
    (Updated /\ batch # <<>>) =>
        /\ result.success =>
               /\ Persisted
               /\ \E i \in DOMAIN db : \E k \in DOMAIN batch :
                      db[i] = batch[k] \/ db[i] = Flagged(batch[k])
        /\ ~Persisted => (~result.success /\ result.conflicts = <<>>)

-----------------------------------------------------------------------------
(* C26: add_papers with an empty batch, applied to a collection that         *)
(* add_papers itself produced, rewrites the collection with the same records *)
(* in the same order and with every flagged record still attached to the     *)
(* same live record.                                                         *)

\* add_papers([]) on the collection that the last call wrote
Rewritten == add_papers(db, <<>>, policy)

C26_RewriteReproducesGroups ==
    Succeeded =>
        /\ Rewritten.sorted = db
        /\ \A i, j \in DOMAIN db :
               (~IsLive(db[i]) /\ RunEndsAt(db, i, j)) =>
                   \E g \in DOMAIN Rewritten.regrouped :
                       /\ Rewritten.regrouped[g].main = db[j]
                       /\ \E k \in DOMAIN Rewritten.regrouped[g].conf :
                              Rewritten.regrouped[g].conf[k] = db[i]

-----------------------------------------------------------------------------
(* C27: delete_paper removes exactly one record when it succeeds, and when   *)
(* some stored record has the same non-empty uid as the target, the removed  *)
(* record is a record with that uid (the uid match takes priority over the   *)
(* identity match), so a different same-identity record of the group is      *)
(* never deleted in its place.                                               *)

Deleted == op = "delete" /\ result.success

RemoveAt(rows, k) == SubSeq(rows, 1, k - 1) \o SubSeq(rows, k + 1, Len(rows))

\* some stored record carries the uid of the target
UidStored(target_paper) ==
    /\ target_paper.uid # E
    /\ \E i \in DOMAIN PreRows : PreRows[i].uid = target_paper.uid

C27_DeletesTheUidMatch ==
    Deleted =>
        \E k \in DOMAIN PreRows :
            /\ db = RemoveAt(PreRows, k)
            /\ UidStored(batch[1]) => PreRows[k].uid = batch[1].uid

\* what does hold: exactly one record goes, the first one that matches the
\* target by uid or by identity
C27_DeletesExactlyOne ==
    Deleted =>
        \E k \in DOMAIN PreRows :
            /\ db = RemoveAt(PreRows, k)
            /\ DeleteMatches(PreRows[k], batch[1])
            /\ \A h \in 1..(k - 1) : ~DeleteMatches(PreRows[h], batch[1])

-----------------------------------------------------------------------------
(* C28: merge_papers_custom(base, conflict, final_data) removes exactly the  *)
(* record at the conflict index, sets the fields of the base record to       *)
(* final_data and its conflict_marker to false, and leaves every other       *)
(* record and their relative order unchanged: the list shrinks by exactly 1. *)

Merged == op = "merge"

\* the place of the base record after the conflict record is gone
NewBaseIndex ==
    IF result.base_index < result.conflict_index
    THEN result.base_index ELSE result.base_index - 1

C28_MergeRemovesConflictOnly ==
    Merged =>
        /\ Len(db) = Len(pre) - 1
        /\ \A k \in DOMAIN result.final_data :
               k \in DOMAIN db[NewBaseIndex] =>
                   db[NewBaseIndex][k] = result.final_data[k]
        /\ \A k \in DOMAIN db[NewBaseIndex] \ DOMAIN result.final_data :
               k # "conflict_marker" =>
                   db[NewBaseIndex][k] = pre[result.base_index][k]
        /\ ~db[NewBaseIndex].conflict_marker
        /\ \A i \in DOMAIN pre :
               (i # result.base_index /\ i # result.conflict_index) =>
                   db[IF i < result.conflict_index THEN i ELSE i - 1] = pre[i]

\* a conflict that is resolved while another record stands behind the pair
C28_Witness ==
    /\ Merged
    /\ Len(pre) = 3 /\ result.conflict_index = 1 /\ result.base_index = 2
    /\ db[1].title = <<"bar">> /\ pre[2].title = <<"foo">>
    /\ db[2] = pre[3]

-----------------------------------------------------------------------------
(* C29: _deduplicate_papers keeps the first occurrence of each (doi, title)  *)
(* key in order, drops later records with the same key, and drops every      *)
(* record whose DOI and title are both empty.                                *)

Deduplicated == op = "dedup"

SameKey(a, b) == a.doi = b.doi /\ a.title = b.title

\* the records at the places of keep, in order
RECURSIVE Kept(_, _, _)
Kept(papers, keep, i) ==
    IF i > Len(papers) THEN <<>>
    ELSE (IF i \in keep THEN <<papers[i]>> ELSE <<>>) \o Kept(papers, keep, i + 1)

FirstOccurrences(papers) ==
    {i \in DOMAIN papers : \A j \in 1..(i - 1) : ~SameKey(papers[j], papers[i])}

C29_FirstOfEachKeyNoBlank ==
    Deduplicated =>
        result.unique =
            Kept(batch, {i \in FirstOccurrences(batch) : ~Blank(batch[i])}, 1)

\* what does hold: the first occurrence of each key is kept, the blank key
\* like any other
C29_FirstOfEachKey ==
    Deduplicated => result.unique = Kept(batch, FirstOccurrences(batch), 1)

-----------------------------------------------------------------------------
(* C30: with the same ignore_fields, strict equality implies subset equality *)
(* in both directions: if _papers_fields_equal(a, b, True) then              *)
(* _papers_fields_equal(a, b, False) and _papers_fields_equal(b, a, False),  *)
(* also when a field holds only white space on one side and is empty on the  *)
(* other.                                                                    *)

C30_StrictImpliesSubset ==
    (Compared /\ result.strict) =>
        /\ result.subset
        /\ _papers_fields_equal(batch[2], batch[1], FALSE, result.ignore_fields)

\* no compared field of a record is white space only
NoWhiteSpaceOnly(p, ignore) ==
    \A k \in StrFields \ ignore : ComparedValue(p, k) # E => Strip(ComparedValue(p, k)) # E

\* what does hold: the implication for records without such fields
C30_StrictImpliesSubsetIfTrimmed ==
    (/\ Compared /\ result.strict
     /\ NoWhiteSpaceOnly(batch[1], result.ignore_fields)
     /\ NoWhiteSpaceOnly(batch[2], result.ignore_fields)) =>
        /\ result.subset
        /\ _papers_fields_equal(batch[2], batch[1], FALSE, result.ignore_fields)

====
